---- MODULE Spec2Model ----
(***************************************************************************)
(* Concept mastery tracking (src/concept_mastery_tracker.py) and the API   *)
(* handler that drives it (src/ml_recommendations_api.py).                 *)
(*                                                                         *)
(* Numbers.  The program computes with Python floats; the model computes   *)
(* with exact rationals <<numerator, denominator>> in lowest terms with a  *)
(* positive denominator.  <<0, 0>> stands for a raised ZeroDivisionError   *)
(* and is propagated by every arithmetic operator.                         *)
(*                                                                         *)
(* Time.  A datetime is a record [kind, t, aware] with t counted in ticks  *)
(* (TicksPerDay ticks to the day); an ISO-8601 string is a record          *)
(* [text, t, tz] produced by isoformat and read back by fromisoformat.     *)
(*                                                                         *)
(* Specifications.                                                         *)
(*   Spec      the update pipeline: a caller's record store, one record    *)
(*             per concept, updated through update_concept_mastery.        *)
(*   SpecBKT   direct calls of BayesianKnowledgeTracing.update_mastery and *)
(*             get_mastery_level on an instance whose parameters were      *)
(*             configured to any of BktConfigs.                            *)
(*   SpecSched chained direct calls of                                     *)
(*             SpacedRepetitionScheduler.calculate_next_review.            *)
(*   SpecDue   due-queries: direct calls of get_due_concepts and requests  *)
(*             to /spaced-repetition/due, on batches of records.           *)
(*   SpecLedger direct calls of get_weak_concepts and get_mastery_summary  *)
(*             on batches of records.                                      *)
(*   SpecRisk  direct calls of calculate_risk_score.                       *)
(*   SpecChain chained calculate_next_review calls that all pass, made for  *)
(*             as long as they are possible (weak fairness).               *)
(*   SpecStore two callers running read-update-write cycles against the    *)
(*             record store, the read and the write being separate steps.  *)
(***************************************************************************)
EXTENDS Integers, Sequences, FiniteSets, TLC

\* ------------------------------------------------------------------ bounds
\* prior masteries are the multiples of 1/MasteryDen in [0,1]
MasteryDen == 10
\* question attempts made in one behaviour of Spec (over all concepts)
MaxAttempts == 3
\* ticks the wall clock may advance in one behaviour
MaxClock == 1
\* chained calculate_next_review calls in one behaviour of SpecSched
MaxReviews == 3
\* records in one batch posted to the due-query
MaxDueRecords == 2
\* records in one batch given to get_weak_concepts and get_mastery_summary
MaxLedgerRecords == 3
\* resolution of the clock
TicksPerDay == 2
\* SpecChain stops reviewing once the ease factor has reached this many tenths
MaxEaseTenths == 35

VARIABLES
    bkt,    \* BayesianKnowledgeTracing instance: p_L0, p_T, p_G, p_S
    store,  \* the caller's record store: conceptId -> ConceptMasteryRecord
    clock,  \* datetime.now(), in ticks
    hist,   \* history: per concept the prior and the attempts fed so far
    call,   \* the last call made: its operation, arguments and result
    sched,  \* the scheduling state a caller feeds back: interval, easeFactor
    depth,  \* calls made so far in this behaviour
    inflight \* per caller, the update it has read a record for and not yet written

vars == <<bkt, store, clock, hist, call, sched, depth, inflight>>

\* ------------------------------------------------- float arithmetic (exact)
Abs(x) == IF x < 0 THEN -x ELSE x

RECURSIVE GCD(_, _)
GCD(a, b) == IF b = 0 THEN a ELSE GCD(b, a % b)

ZeroDivisionError == <<0, 0>>

IsErr(x) == x[2] = 0

\* n/d in lowest terms, d # 0
Rat(n, d) ==
    LET s == IF d < 0 THEN -1 ELSE 1
        g == GCD(Abs(n), Abs(d))
    IN  <<(s * n) \div g, (s * d) \div g>>

FromInt(i) == <<i, 1>>

Zero == <<0, 1>>

One == <<1, 1>>

Neg(a) == IF IsErr(a) THEN ZeroDivisionError ELSE <<-a[1], a[2]>>

Add(a, b) ==
    IF IsErr(a) \/ IsErr(b) THEN ZeroDivisionError
    ELSE LET g == GCD(a[2], b[2])
         IN  Rat(a[1] * (b[2] \div g) + b[1] * (a[2] \div g), (a[2] \div g) * b[2])

Sub(a, b) == Add(a, Neg(b))

Mul(a, b) ==
    IF IsErr(a) \/ IsErr(b) THEN ZeroDivisionError
    ELSE LET g1 == GCD(Abs(a[1]), b[2])
             g2 == GCD(Abs(b[1]), a[2])
         IN  Rat((a[1] \div g1) * (b[1] \div g2), (a[2] \div g2) * (b[2] \div g1))

Div(a, b) ==
    IF IsErr(a) \/ IsErr(b) \/ b[1] = 0 THEN ZeroDivisionError
    ELSE Mul(a, Rat(b[2], b[1]))

\* a < b
Less(a, b) ==
    LET g == GCD(a[2], b[2])
    IN  a[1] * (b[2] \div g) < b[1] * (a[2] \div g)

\* a >= b
Geq(a, b) == ~Less(a, b)

\* Python's min(a, b) and max(a, b): the first argument wins a tie
PyMin(a, b) == IF Less(b, a) THEN b ELSE a

PyMax(a, b) == IF Less(a, b) THEN b ELSE a

\* int(x): truncation toward zero
int(x) == IF x[1] >= 0 THEN x[1] \div x[2] ELSE -((-x[1]) \div x[2])

\* ------------------------------------------------------------------- time
None == [kind |-> "None", t |-> 0, aware |-> FALSE]

datetime(t) == [kind |-> "datetime", t |-> t, aware |-> FALSE]

datetime_now == datetime(clock)

\* dt + timedelta(days=days)
plus_days(dt, days) == [dt EXCEPT !.t = dt.t + days * TicksPerDay]

NoDate == [text |-> "None", t |-> 0, tz |-> FALSE]

isoformat(dt) == [text |-> "iso8601", t |-> dt.t, tz |-> dt.aware]

ValueError == [kind |-> "ValueError", t |-> 0, aware |-> FALSE]

\* a string that is no ISO-8601 timestamp (or a value that is no string)
Malformed == [text |-> "malformed", t |-> 0, tz |-> FALSE]

\* an aware datetime's t is its instant in UTC
fromisoformat(s) ==
    IF s.text = "iso8601" THEN [kind |-> "datetime", t |-> s.t, aware |-> s.tz]
    ELSE ValueError

\* ------------------------------------------------ BayesianKnowledgeTracing
BktDefaults == [p_L0 |-> Rat(3, 10), p_T |-> Rat(3, 10), p_G |-> Rat(1, 5), p_S |-> Rat(1, 10)]

p_correct_given_know(current_mastery) == Mul(Sub(One, bkt.p_S), current_mastery)

p_correct_given_not_know(current_mastery) == Mul(bkt.p_G, Sub(One, current_mastery))

p_correct(current_mastery) ==
    Add(p_correct_given_know(current_mastery), p_correct_given_not_know(current_mastery))

p_wrong_given_know(current_mastery) == Mul(bkt.p_S, current_mastery)

p_wrong_given_not_know(current_mastery) == Mul(Sub(One, bkt.p_G), Sub(One, current_mastery))

p_wrong(current_mastery) ==
    Add(p_wrong_given_know(current_mastery), p_wrong_given_not_know(current_mastery))

\* the correct branch, written as the wrong branch would be after a careless copy
posterior_wrong_copied(current_mastery) ==
    IF Less(Zero, p_correct(current_mastery))
    THEN Div(p_correct_given_know(current_mastery), p_correct(current_mastery))
    ELSE current_mastery

\* the division without its guard
posterior_wrong_unguarded(current_mastery) ==
    Div(p_wrong_given_know(current_mastery), p_wrong(current_mastery))

posterior_correct(current_mastery) ==
    IF Less(Zero, p_correct(current_mastery))
    THEN Div(p_correct_given_know(current_mastery), p_correct(current_mastery))
    ELSE current_mastery

posterior_wrong(current_mastery) ==
    IF Less(Zero, p_wrong(current_mastery))
    THEN Div(p_wrong_given_know(current_mastery), p_wrong(current_mastery))
    ELSE current_mastery

\* the learning step applied after a correct answer instead of an incorrect one
apply_learning_on_correct(new_mastery, is_correct) ==
    IF is_correct
    THEN Add(new_mastery, Mul(bkt.p_T, Sub(One, new_mastery)))
    ELSE new_mastery

\* the learning step applied after every attempt (textbook BKT)
apply_learning_always(new_mastery, is_correct) ==
    Add(new_mastery, Mul(bkt.p_T, Sub(One, new_mastery)))

apply_learning(new_mastery, is_correct) ==
    IF ~is_correct
    THEN Add(new_mastery, Mul(bkt.p_T, Sub(One, new_mastery)))
    ELSE new_mastery

\* the result returned as a percentage
clamp_percent(new_mastery) ==
    IF IsErr(new_mastery) THEN ZeroDivisionError
    ELSE PyMin(FromInt(100), PyMax(Zero, Mul(FromInt(100), new_mastery)))

clamp_unit(new_mastery) ==
    IF IsErr(new_mastery) THEN ZeroDivisionError
    ELSE PyMin(One, PyMax(Zero, new_mastery))

update_mastery(current_mastery, is_correct) ==
    clamp_unit(apply_learning(IF is_correct THEN posterior_correct(current_mastery)
                                            ELSE posterior_wrong(current_mastery),
                              is_correct))

\* the first band tested with > instead of >=
get_mastery_level_strict(mastery_prob) ==
    IF Less(Rat(9, 10), mastery_prob) THEN "mastered"
    ELSE IF Geq(mastery_prob, Rat(7, 10)) THEN "proficient"
    ELSE IF Geq(mastery_prob, Rat(5, 10)) THEN "developing"
    ELSE IF Geq(mastery_prob, Rat(3, 10)) THEN "beginning"
    ELSE "novice"

get_mastery_level(mastery_prob) ==
    IF Geq(mastery_prob, Rat(9, 10)) THEN "mastered"
    ELSE IF Geq(mastery_prob, Rat(7, 10)) THEN "proficient"
    ELSE IF Geq(mastery_prob, Rat(5, 10)) THEN "developing"
    ELSE IF Geq(mastery_prob, Rat(3, 10)) THEN "beginning"
    ELSE "novice"

\* ---------------------------------------------------- ConceptMasteryTracker
\* every attempt counted as a correct one
update_from_question_attempt_miscount(current_mastery, attempts, correct_attempts, is_correct) ==
    LET new_mastery == update_mastery(current_mastery, is_correct)
    IN  [masteryLevel |-> new_mastery,
         attempts |-> attempts + 1,
         correctAttempts |-> correct_attempts + 1,
         masteryLevelLabel |-> get_mastery_level(new_mastery),
         lastReviewed |-> isoformat(datetime_now)]

update_from_question_attempt(current_mastery, attempts, correct_attempts, is_correct) ==
    LET new_mastery == update_mastery(current_mastery, is_correct)
        new_attempts == attempts + 1
        new_correct_attempts == correct_attempts + (IF is_correct THEN 1 ELSE 0)
    IN  [masteryLevel |-> new_mastery,
         attempts |-> new_attempts,
         correctAttempts |-> new_correct_attempts,
         masteryLevelLabel |-> get_mastery_level(new_mastery),
         lastReviewed |-> isoformat(datetime_now)]

\* ------------------------------------------------ SpacedRepetitionScheduler
min_interval == 1

max_interval == 365

\* the bands tested with > instead of >=
quality_of_strict(current_mastery) ==
    IF Less(Rat(9, 10), current_mastery) THEN 5
    ELSE IF Less(Rat(7, 10), current_mastery) THEN 4
    ELSE IF Less(Rat(5, 10), current_mastery) THEN 3
    ELSE IF Less(Rat(3, 10), current_mastery) THEN 2
    ELSE 1

quality_of(current_mastery) ==
    IF Geq(current_mastery, Rat(9, 10)) THEN 5
    ELSE IF Geq(current_mastery, Rat(7, 10)) THEN 4
    ELSE IF Geq(current_mastery, Rat(5, 10)) THEN 3
    ELSE IF Geq(current_mastery, Rat(3, 10)) THEN 2
    ELSE 1

\* the quality penalty without its quadratic term's nesting:
\* (5 - q) * 0.08 + (5 - q) * 0.02
sm2_ease_linear(quality, ease_factor) ==
    IF quality < 3
    THEN PyMax(Rat(13, 10), Sub(ease_factor, Rat(2, 10)))
    ELSE PyMax(Rat(13, 10),
               Add(ease_factor,
                   Sub(Rat(1, 10),
                       Add(Mul(FromInt(5 - quality), Rat(8, 100)),
                           Mul(FromInt(5 - quality), Rat(2, 100))))))

\* the ease factor after the call: lines 214 and 225-226
sm2_ease(quality, ease_factor) ==
    IF quality < 3
    THEN PyMax(Rat(13, 10), Sub(ease_factor, Rat(2, 10)))
    ELSE PyMax(Rat(13, 10),
               Add(ease_factor,
                   Sub(Rat(1, 10),
                       Mul(FromInt(5 - quality),
                           Add(Rat(8, 100), Mul(FromInt(5 - quality), Rat(2, 100)))))))

\* a failed review that keeps the interval it was given
sm2_interval_no_reset(quality, current_interval, ease_factor) ==
    IF quality < 3 THEN current_interval
    ELSE IF current_interval = 0 THEN min_interval
    ELSE IF current_interval = min_interval THEN 6
    ELSE int(Mul(FromInt(current_interval), ease_factor))

\* the interval grown by the ease factor after its adjustment
sm2_interval_adjusted_ease(quality, current_interval, ease_factor) ==
    IF quality < 3 THEN min_interval
    ELSE IF current_interval = 0 THEN min_interval
    ELSE IF current_interval = min_interval THEN 6
    ELSE int(Mul(FromInt(current_interval), sm2_ease(quality, ease_factor)))

\* new_interval before the clamp: lines 211-222
sm2_interval(quality, current_interval, ease_factor) ==
    IF quality < 3 THEN min_interval
    ELSE IF current_interval = 0 THEN min_interval
    ELSE IF current_interval = min_interval THEN 6
    ELSE int(Mul(FromInt(current_interval), ease_factor))

IntMin(a, b) == IF b < a THEN b ELSE a

IntMax(a, b) == IF a < b THEN b ELSE a

\* only the lower end clamped
clamp_interval_lower_only(new_interval) == IntMax(min_interval, new_interval)

clamp_interval(new_interval) == IntMax(min_interval, IntMin(max_interval, new_interval))

\* the next review counted from the current time, whatever the last review date
review_baseline_now(last_review_date) == datetime_now

review_baseline(last_review_date) ==
    IF last_review_date = None THEN datetime_now ELSE last_review_date

calculate_next_review(current_mastery, last_review_date, current_interval, ease_factor) ==
    LET base == review_baseline(last_review_date)
        quality == quality_of(current_mastery)
        new_interval == clamp_interval(sm2_interval(quality, current_interval, ease_factor))
        next_review == plus_days(base, new_interval)
    IN  [nextReviewDate |-> isoformat(next_review),
         interval |-> new_interval,
         easeFactor |-> sm2_ease(quality, ease_factor),
         quality |-> quality]

\* ------------------------------------------ /concept-mastery/update handler
ErrorBody == "error"

\* the scheduler fed the mastery of the request, not the updated one
update_concept_mastery_stale_mastery(data) ==
    IF ~data.hasRequired
    THEN [status |-> 400, body |-> ErrorBody]
    ELSE IF IsErr(update_mastery(data.currentMastery, data.isCorrect))
    THEN [status |-> 500, body |-> ErrorBody]
    ELSE LET updated == update_from_question_attempt(data.currentMastery, data.attempts,
                                                     data.correctAttempts, data.isCorrect)
             next_review == calculate_next_review(data.currentMastery,
                                                  fromisoformat(updated.lastReviewed),
                                                  data.currentInterval, data.easeFactor)
         IN  [status |-> 200,
              body |-> [masteryLevel |-> updated.masteryLevel,
                        attempts |-> updated.attempts,
                        correctAttempts |-> updated.correctAttempts,
                        masteryLevelLabel |-> updated.masteryLevelLabel,
                        lastReviewed |-> updated.lastReviewed,
                        nextReviewDate |-> next_review.nextReviewDate,
                        interval |-> next_review.interval,
                        easeFactor |-> next_review.easeFactor]]

update_concept_mastery(data) ==
    IF ~data.hasRequired
    THEN [status |-> 400, body |-> ErrorBody]
    ELSE IF IsErr(update_mastery(data.currentMastery, data.isCorrect))
    THEN [status |-> 500, body |-> ErrorBody]
    ELSE LET updated == update_from_question_attempt(data.currentMastery, data.attempts,
                                                     data.correctAttempts, data.isCorrect)
             last_review == IF updated.lastReviewed.text # "None"
                            THEN fromisoformat(updated.lastReviewed)
                            ELSE datetime_now
             next_review == calculate_next_review(updated.masteryLevel, last_review,
                                                  data.currentInterval, data.easeFactor)
         IN  [status |-> 200,
              body |-> [masteryLevel |-> updated.masteryLevel,
                        attempts |-> updated.attempts,
                        correctAttempts |-> updated.correctAttempts,
                        masteryLevelLabel |-> updated.masteryLevelLabel,
                        lastReviewed |-> updated.lastReviewed,
                        nextReviewDate |-> next_review.nextReviewDate,
                        interval |-> next_review.interval,
                        easeFactor |-> next_review.easeFactor]]

\* ----------------------------------------------------------------- inputs
ConceptIds == {"c1", "c2"}

MasteryGrid == {Rat(k, MasteryDen) : k \in 0..MasteryDen}

\* a record as the caller creates it: the caller's prior mastery (one constant
\* for all its records), no attempts, and no
\* scheduling state (the handler's defaults 1 and 2.5 stand in for it)
NewRecord(prior) ==
    [masteryLevel |-> prior,
     attempts |-> 0,
     correctAttempts |-> 0,
     masteryLevelLabel |-> "unset",
     lastReviewed |-> NoDate,
     nextReviewDate |-> NoDate,
     interval |-> 1,
     easeFactor |-> Rat(5, 2)]

\* the callers that update the record store
Callers == {"a", "b"}

Idle == [state |-> "idle"]

NoRequests == [p \in Callers |-> Idle]

NoCall == [op |-> "none"]

IdleSched == [interval |-> 1, easeFactor |-> Rat(5, 2)]

\* ------------------------------------------------------------------- Spec
Init ==
    /\ bkt = BktDefaults
    /\ \E prior \in MasteryGrid :
          /\ store = [c \in ConceptIds |-> NewRecord(prior)]
          /\ hist = [c \in ConceptIds |-> [prior |-> prior, outcomes |-> <<>>]]
    /\ clock = 0
    /\ call = NoCall
    /\ sched = IdleSched
    /\ depth = 0
    /\ inflight = NoRequests

\* the caller reads the concept's record, posts it with the attempt's outcome,
\* and persists the record the handler returns
UpdateConceptMastery ==
    \E c \in ConceptIds, is_correct \in BOOLEAN :
        /\ depth < MaxAttempts
        /\ LET rec == store[c]
               data == [hasRequired |-> TRUE,
                        conceptId |-> c,
                        isCorrect |-> is_correct,
                        currentMastery |-> rec.masteryLevel,
                        attempts |-> rec.attempts,
                        correctAttempts |-> rec.correctAttempts,
                        currentInterval |-> rec.interval,
                        easeFactor |-> rec.easeFactor]
               resp == update_concept_mastery(data)
           IN  /\ call' = [op |-> "update_concept_mastery", data |-> data, resp |-> resp]
               /\ store' = IF resp.status = 200 THEN [store EXCEPT ![c] = resp.body] ELSE store
               /\ hist' = IF resp.status = 200
                          THEN [hist EXCEPT ![c].outcomes = Append(@, is_correct)]
                          ELSE hist
        /\ depth' = depth + 1
        /\ UNCHANGED <<bkt, clock, sched, inflight>>

\* a request without conceptId or isCorrect is refused
RejectedUpdate ==
    /\ call' = [op |-> "update_concept_mastery",
                data |-> [hasRequired |-> FALSE],
                resp |-> update_concept_mastery([hasRequired |-> FALSE])]
    /\ UNCHANGED <<bkt, store, clock, hist, sched, depth, inflight>>

Tick ==
    /\ clock < MaxClock
    /\ clock' = clock + 1
    /\ UNCHANGED <<bkt, store, hist, call, sched, depth, inflight>>

Next == UpdateConceptMastery \/ RejectedUpdate \/ Tick

Spec == Init /\ [][Next]_vars

\* ---------------------------------------------------------------- SpecBKT
\* parameter values an instance may be configured with
BktConfigs ==
    [p_L0 : {Rat(3, 10)},
     p_T : {Zero, Rat(3, 10)},
     p_G : {Zero, Rat(1, 5), One},
     p_S : {Zero, Rat(1, 10), One}]

\* masteries next to the band boundaries of get_mastery_level
LevelInputs ==
    MasteryGrid \cup {Rat(8999, 10000), Rat(6999, 10000), Rat(4999, 10000), Rat(2999, 10000)}

InitBKT ==
    /\ bkt \in BktConfigs
    /\ store = [c \in ConceptIds |-> NewRecord(bkt.p_L0)]
    /\ hist = [c \in ConceptIds |-> [prior |-> bkt.p_L0, outcomes |-> <<>>]]
    /\ clock = 0
    /\ call = NoCall
    /\ sched = IdleSched
    /\ depth = 0
    /\ inflight = NoRequests

\* masteries given to update_mastery: the grid, and two points at and below
\* the mastery 12/133 where both outcomes give the same result
UpdateInputs == MasteryGrid \cup {Rat(9, 100), Rat(12, 133)}

CallUpdateMastery ==
    \E m \in UpdateInputs, is_correct \in BOOLEAN :
        /\ call' = [op |-> "update_mastery",
                    current_mastery |-> m,
                    is_correct |-> is_correct,
                    ret |-> update_mastery(m, is_correct)]
        /\ UNCHANGED <<bkt, store, clock, hist, sched, depth, inflight>>

CallGetMasteryLevel ==
    \E m \in LevelInputs :
        /\ call' = [op |-> "get_mastery_level",
                    mastery_prob |-> m,
                    ret |-> get_mastery_level(m)]
        /\ UNCHANGED <<bkt, store, clock, hist, sched, depth, inflight>>

NextBKT == CallUpdateMastery \/ CallGetMasteryLevel

SpecBKT == InitBKT /\ [][NextBKT]_vars

\* -------------------------------------------------------------- SpecSched
StartIntervals == {-3, 0, 1, 2, 150, 400}

StartEases == {Rat(-1, 1), One, Rat(13, 10), Rat(7, 5), Rat(5, 2)}

ReviewMasteries == {Zero, Rat(1, 5), Rat(3, 10), Rat(1, 2), Rat(7, 10), Rat(9, 10), Rat(19, 20)}

LastReviewDates == {None, datetime(0), datetime(7)}

InitSched ==
    /\ bkt = BktDefaults
    /\ store = [c \in ConceptIds |-> NewRecord(bkt.p_L0)]
    /\ hist = [c \in ConceptIds |-> [prior |-> bkt.p_L0, outcomes |-> <<>>]]
    /\ clock = 0
    /\ call = NoCall
    /\ sched \in [interval : StartIntervals, easeFactor : StartEases]
    /\ depth = 0
    /\ inflight = NoRequests

\* one review: the caller passes the interval and ease factor the previous
\* call returned (or its starting values) and keeps the ones returned
CallCalculateNextReview ==
    \E m \in ReviewMasteries, last \in LastReviewDates :
        /\ depth < MaxReviews
        /\ LET ret == calculate_next_review(m, last, sched.interval, sched.easeFactor)
           IN  /\ call' = [op |-> "calculate_next_review",
                           current_mastery |-> m,
                           last_review_date |-> last,
                           current_interval |-> sched.interval,
                           ease_factor |-> sched.easeFactor,
                           now |-> datetime_now,
                           new_interval |-> sm2_interval(quality_of(m), sched.interval,
                                                         sched.easeFactor),
                           ret |-> ret]
               /\ sched' = [interval |-> ret.interval, easeFactor |-> ret.easeFactor]
        /\ depth' = depth + 1
        /\ UNCHANGED <<bkt, store, clock, hist, inflight>>

NextSched == CallCalculateNextReview \/ Tick

SpecSched == InitSched /\ [][NextSched]_vars

\* -------------------------------------------------------------- SpecChain
\* a learner who passes every review: chained calls with mastery >= 0.5, for
\* as long as the ease factor is below MaxEaseTenths / 10
ChainIntervals == {0, 1, 2, 5, 150, 365}

ChainEases == {Rat(13, 10), Rat(5, 2)}

PassingMasteries == {Rat(1, 2), Rat(7, 10), Rat(9, 10)}

InitChain ==
    /\ bkt = BktDefaults
    /\ store = [c \in ConceptIds |-> NewRecord(bkt.p_L0)]
    /\ hist = [c \in ConceptIds |-> [prior |-> bkt.p_L0, outcomes |-> <<>>]]
    /\ clock = 0
    /\ call = NoCall
    /\ sched \in [interval : ChainIntervals, easeFactor : ChainEases]
    /\ depth = 0
    /\ inflight = NoRequests

\* one passed review, fed the interval and ease factor of the one before
CallPassingReview ==
    \E m \in PassingMasteries :
        /\ Less(sched.easeFactor, Rat(MaxEaseTenths, 10))
        /\ LET ret == calculate_next_review(m, datetime(0), sched.interval, sched.easeFactor)
           IN  /\ call' = [op |-> "calculate_next_review",
                           current_mastery |-> m,
                           last_review_date |-> datetime(0),
                           current_interval |-> sched.interval,
                           ease_factor |-> sched.easeFactor,
                           now |-> datetime_now,
                           new_interval |-> sm2_interval(quality_of(m), sched.interval,
                                                         sched.easeFactor),
                           ret |-> ret]
               /\ sched' = [interval |-> ret.interval, easeFactor |-> ret.easeFactor]
        /\ UNCHANGED <<bkt, store, clock, hist, depth, inflight>>

NextChain == CallPassingReview

\* the learner keeps reviewing until the interval is 365: weak fairness of
\* CallPassingReview, which is enabled in every state whose interval is below
\* 365, written out with that state predicate in place of ENABLED
SpecChain ==
    /\ InitChain
    /\ [][NextChain]_vars
    /\ ([]<>(sched.interval = 365) \/ []<><<CallPassingReview>>_vars)

\* ---------------------------------------------------- get_due_concepts
\* one iteration of the loop of lines 261-277 on a record: the record is
\* skipped, appended with its daysOverdue, or the comparison of an aware with
\* a naive datetime raises TypeError, which no except clause catches
due_step(record, current_date) ==
    LET next_review_str == record.nextReviewDate
    IN  IF next_review_str.text = "None" THEN [do |-> "skip", daysOverdue |-> 0]
        ELSE LET next_review == fromisoformat(next_review_str)
             IN  IF next_review.kind = "ValueError"
                 THEN [do |-> "append", daysOverdue |-> 999]
                 ELSE IF next_review.aware # current_date.aware
                 THEN [do |-> "raise", daysOverdue |-> 0]
                 ELSE IF next_review.t <= current_date.t
                 THEN [do |-> "append",
                       daysOverdue |-> (current_date.t - next_review.t) \div TicksPerDay]
                 ELSE [do |-> "skip", daysOverdue |-> 0]

DueEntry(record, days_overdue) ==
    [conceptId |-> record.conceptId,
     nextReviewDate |-> record.nextReviewDate,
     daysOverdue |-> days_overdue]

RECURSIVE due_loop(_, _)
\* due_concepts after the loop, in input order
due_loop(mastery_records, current_date) ==
    IF mastery_records = <<>> THEN <<>>
    ELSE LET step == due_step(Head(mastery_records), current_date)
             rest == due_loop(Tail(mastery_records), current_date)
         IN  IF step.do = "append"
             THEN <<DueEntry(Head(mastery_records), step.daysOverdue)>> \o rest
             ELSE rest

due_raises(mastery_records, current_date) ==
    \E i \in 1..Len(mastery_records) : due_step(mastery_records[i], current_date).do = "raise"

RECURSIVE insert_by_days_desc(_, _)
\* x placed after every entry at least as overdue: a stable descending order
insert_by_days_desc(acc, x) ==
    IF acc = <<>> THEN <<x>>
    ELSE IF Head(acc).daysOverdue < x.daysOverdue THEN <<x>> \o acc
    ELSE <<Head(acc)>> \o insert_by_days_desc(Tail(acc), x)

RECURSIVE insert_by_days_asc(_, _)
insert_by_days_asc(acc, x) ==
    IF acc = <<>> THEN <<x>>
    ELSE IF x.daysOverdue < Head(acc).daysOverdue THEN <<x>> \o acc
    ELSE <<Head(acc)>> \o insert_by_days_asc(Tail(acc), x)

RECURSIVE sorted_asc_from(_, _)
sorted_asc_from(acc, due_concepts) ==
    IF due_concepts = <<>> THEN acc
    ELSE sorted_asc_from(insert_by_days_asc(acc, Head(due_concepts)), Tail(due_concepts))

Reversed(seq) == [i \in 1..Len(seq) |-> seq[Len(seq) + 1 - i]]

\* sorted(due_concepts, key=...)[::-1]: descending, ties in reverse input order
sorted_due_reversed_slice(due_concepts) == Reversed(sorted_asc_from(<<>>, due_concepts))

RECURSIVE sorted_desc_from(_, _)
sorted_desc_from(acc, due_concepts) ==
    IF due_concepts = <<>> THEN acc
    ELSE sorted_desc_from(insert_by_days_desc(acc, Head(due_concepts)), Tail(due_concepts))

\* sorted(due_concepts, key=daysOverdue, reverse=True)
sorted_due(due_concepts) == sorted_desc_from(<<>>, due_concepts)

get_due_concepts(mastery_records, current_date) ==
    LET now == IF current_date = None THEN datetime_now ELSE current_date
    IN  IF due_raises(mastery_records, now)
        THEN [raised |-> "TypeError", value |-> <<>>]
        ELSE [raised |-> "", value |-> sorted_due(due_loop(mastery_records, now))]

\* ------------------------------------------- /spaced-repetition/due handler
api_get_due_concepts(data) ==
    IF ~data.hasRecords
    THEN [status |-> 400, dueConcepts |-> <<>>, count |-> 0]
    ELSE LET current_date == IF data.currentDate.text # "None"
                             THEN fromisoformat(data.currentDate)
                             ELSE None
         IN  IF current_date.kind = "ValueError"
             THEN [status |-> 500, dueConcepts |-> <<>>, count |-> 0]
             ELSE LET due_concepts == get_due_concepts(data.masteryRecords, current_date)
                  IN  IF due_concepts.raised # ""
                      THEN [status |-> 500, dueConcepts |-> <<>>, count |-> 0]
                      ELSE [status |-> 200,
                            dueConcepts |-> due_concepts.value,
                            count |-> Len(due_concepts.value)]

\* ---------------------------------------------------------------- SpecDue
\* nextReviewDate values of a posted record: absent, unparseable, naive
\* timestamps before, at and after the clock, and timestamps with a 'Z' or an
\* offset
ReviewDateStrings ==
    {NoDate, Malformed}
        \cup {[text |-> "iso8601", t |-> t, tz |-> FALSE] : t \in {-7, -6, 0, 1, 4}}
        \cup {[text |-> "iso8601", t |-> t, tz |-> TRUE] : t \in {-6, 4}}

\* batches of records; conceptId is the record's position in the batch
DueBatches ==
    UNION {{[i \in 1..n |-> [conceptId |-> i, nextReviewDate |-> f[i]]] :
               f \in [1..n -> ReviewDateStrings]} : n \in 0..MaxDueRecords}

CurrentDates == {None, datetime(0), [kind |-> "datetime", t |-> 0, aware |-> TRUE]}

CurrentDateStrings ==
    {NoDate, Malformed, isoformat(datetime(0)), [text |-> "iso8601", t |-> 0, tz |-> TRUE]}

InitDue ==
    /\ bkt = BktDefaults
    /\ store = [c \in ConceptIds |-> NewRecord(bkt.p_L0)]
    /\ hist = [c \in ConceptIds |-> [prior |-> bkt.p_L0, outcomes |-> <<>>]]
    /\ clock = 0
    /\ call = NoCall
    /\ sched = IdleSched
    /\ depth = 0
    /\ inflight = NoRequests

\* queries share no state: a behaviour makes one
CallGetDueConcepts ==
    \E records \in DueBatches, current_date \in CurrentDates :
        /\ call = NoCall
        /\ call' = [op |-> "get_due_concepts",
                    mastery_records |-> records,
                    current_date |-> current_date,
                    now |-> IF current_date = None THEN datetime_now ELSE current_date,
                    ret |-> get_due_concepts(records, current_date)]
        /\ UNCHANGED <<bkt, store, clock, hist, sched, depth, inflight>>

PostDueConcepts ==
    \E records \in DueBatches, current_date \in CurrentDateStrings :
        LET data == [hasRecords |-> TRUE, masteryRecords |-> records,
                     currentDate |-> current_date]
        IN  /\ call = NoCall
            /\ call' = [op |-> "api_get_due_concepts",
                        data |-> data,
                        resp |-> api_get_due_concepts(data)]
            /\ UNCHANGED <<bkt, store, clock, hist, sched, depth, inflight>>

\* a request without masteryRecords is refused
RejectedDueQuery ==
    /\ call = NoCall
    /\ call' = [op |-> "api_get_due_concepts",
                data |-> [hasRecords |-> FALSE],
                resp |-> api_get_due_concepts([hasRecords |-> FALSE])]
    /\ UNCHANGED <<bkt, store, clock, hist, sched, depth, inflight>>

NextDue == CallGetDueConcepts \/ PostDueConcepts \/ RejectedDueQuery \/ Tick

SpecDue == InitDue /\ [][NextDue]_vars

\* ------------------------------- get_weak_concepts, get_mastery_summary
\* record.get('masteryLevel', 0)
record_mastery(record) == IF record.hasMasteryLevel THEN record.masteryLevel ELSE Zero

RECURSIVE insert_by_mastery(_, _)
\* x placed after every record at most as strong: a stable ascending order
insert_by_mastery(acc, x) ==
    IF acc = <<>> THEN <<x>>
    ELSE IF Less(record_mastery(x), record_mastery(Head(acc))) THEN <<x>> \o acc
    ELSE <<Head(acc)>> \o insert_by_mastery(Tail(acc), x)

RECURSIVE sorted_by_mastery_from(_, _)
sorted_by_mastery_from(acc, weak) ==
    IF weak = <<>> THEN acc
    ELSE sorted_by_mastery_from(insert_by_mastery(acc, Head(weak)), Tail(weak))

\* sorted(weak, key=masteryLevel)
sorted_by_mastery(weak) == sorted_by_mastery_from(<<>>, weak)

\* the filter written with <= instead of <
is_weak_inclusive(record, threshold) == ~Less(threshold, record_mastery(record))

is_weak(record, threshold) == Less(record_mastery(record), threshold)

RECURSIVE weak_filter(_, _)
weak_filter(mastery_records, threshold) ==
    IF mastery_records = <<>> THEN <<>>
    ELSE IF is_weak(Head(mastery_records), threshold)
    THEN <<Head(mastery_records)>> \o weak_filter(Tail(mastery_records), threshold)
    ELSE weak_filter(Tail(mastery_records), threshold)

get_weak_concepts(mastery_records, threshold) ==
    sorted_by_mastery(weak_filter(mastery_records, threshold))

RECURSIVE level_count(_, _)
\* levels[level] after the loop of lines 152-156
level_count(mastery_records, level) ==
    IF mastery_records = <<>> THEN 0
    ELSE (IF get_mastery_level(record_mastery(Head(mastery_records))) = level THEN 1 ELSE 0)
             + level_count(Tail(mastery_records), level)

\* total_mastery = mastery in place of total_mastery += mastery
total_mastery_last(mastery_records) ==
    IF mastery_records = <<>> THEN Zero
    ELSE record_mastery(mastery_records[Len(mastery_records)])

RECURSIVE total_mastery(_)
\* total_mastery after the loop of lines 152-156
total_mastery(mastery_records) ==
    IF mastery_records = <<>> THEN Zero
    ELSE Add(record_mastery(Head(mastery_records)), total_mastery(Tail(mastery_records)))

get_mastery_summary(mastery_records) ==
    IF mastery_records = <<>>
    THEN [total |-> 0, mastered |-> 0, proficient |-> 0, developing |-> 0,
          beginning |-> 0, novice |-> 0, averageMastery |-> Zero]
    ELSE [total |-> Len(mastery_records),
          mastered |-> level_count(mastery_records, "mastered"),
          proficient |-> level_count(mastery_records, "proficient"),
          developing |-> level_count(mastery_records, "developing"),
          beginning |-> level_count(mastery_records, "beginning"),
          novice |-> level_count(mastery_records, "novice"),
          averageMastery |-> IF mastery_records # <<>>
                             THEN Div(total_mastery(mastery_records),
                                      FromInt(Len(mastery_records)))
                             ELSE Zero]

\* -------------------------------------------------------------- SpecLedger
\* masteryLevel values of a record: one per label, and the key absent
LedgerMasteries == {Rat(1, 5), Rat(3, 10), Rat(1, 2), Rat(7, 10), Rat(9, 10)}

LedgerRecordValues ==
    {[hasMasteryLevel |-> TRUE, masteryLevel |-> m] : m \in LedgerMasteries}
        \cup {[hasMasteryLevel |-> FALSE, masteryLevel |-> Zero]}

\* batches of records; conceptId is the record's position in the batch
LedgerBatches ==
    UNION {{[i \in 1..n |-> [conceptId |-> i,
                             hasMasteryLevel |-> f[i].hasMasteryLevel,
                             masteryLevel |-> f[i].masteryLevel]] :
               f \in [1..n -> LedgerRecordValues]} : n \in 0..MaxLedgerRecords}

Thresholds == {Rat(7, 10), Rat(1, 2)}

InitLedger ==
    /\ bkt = BktDefaults
    /\ store = [c \in ConceptIds |-> NewRecord(bkt.p_L0)]
    /\ hist = [c \in ConceptIds |-> [prior |-> bkt.p_L0, outcomes |-> <<>>]]
    /\ clock = 0
    /\ call = NoCall
    /\ sched = IdleSched
    /\ depth = 0
    /\ inflight = NoRequests

\* queries share no state: a behaviour makes one
CallGetWeakConcepts ==
    \E records \in LedgerBatches, threshold \in Thresholds :
        /\ call = NoCall
        /\ call' = [op |-> "get_weak_concepts",
                    mastery_records |-> records,
                    threshold |-> threshold,
                    ret |-> get_weak_concepts(records, threshold)]
        /\ UNCHANGED <<bkt, store, clock, hist, sched, depth, inflight>>

CallGetMasterySummary ==
    \E records \in LedgerBatches :
        /\ call = NoCall
        /\ call' = [op |-> "get_mastery_summary",
                    mastery_records |-> records,
                    ret |-> get_mastery_summary(records)]
        /\ UNCHANGED <<bkt, store, clock, hist, sched, depth, inflight>>

NextLedger == CallGetWeakConcepts \/ CallGetMasterySummary

SpecLedger == InitLedger /\ [][NextLedger]_vars

\* ------------------------------------------------ EarlyInterventionDetector
high_risk_threshold == Rat(7, 10)

medium_risk_threshold == Rat(2, 5)

passing_score == FromInt(75)

\* f"{x:.1f}": x rounded to one decimal, ties to even, as a number of tenths
format_1f(x) ==
    LET q == 10 * x[1]
        f == q \div x[2]
        r == q % x[2]
    IN  IF 2 * r < x[2] THEN f
        ELSE IF 2 * r > x[2] THEN f + 1
        ELSE IF f % 2 = 0 THEN f ELSE f + 1

\* a message: its text and the numbers formatted into it
Message(text) == [text |-> text, args |-> <<>>]

MessageWith(text, x) == [text |-> text, args |-> <<format_1f(x)>>]

RECURSIVE rat_sum(_)
rat_sum(values) ==
    IF values = <<>> THEN Zero ELSE Add(Head(values), rat_sum(Tail(values)))

\* np.mean(list(current_scores.values())) if current_scores else 0.0
mean_score(current_scores) ==
    IF current_scores # <<>> THEN Div(rat_sum(current_scores), FromInt(Len(current_scores)))
    ELSE Zero

RECURSIVE sum_x(_)
\* sum of x over x = 0 .. n-1
sum_x(n) == IF n = 0 THEN 0 ELSE (n - 1) + sum_x(n - 1)

RECURSIVE sum_xx(_)
sum_xx(n) == IF n = 0 THEN 0 ELSE (n - 1) * (n - 1) + sum_xx(n - 1)

RECURSIVE sum_xy(_)
\* sum of x * y[x] over x = 0 .. n-1, the points being (x, score_trend[x])
sum_xy(score_trend) ==
    LET n == Len(score_trend)
    IN  IF n = 0 THEN Zero
        ELSE Add(Mul(FromInt(n - 1), score_trend[n]), sum_xy(SubSeq(score_trend, 1, n - 1)))

\* np.polyfit(range(n), score_trend, 1)[0]: the least-squares slope
polyfit_slope(score_trend) ==
    LET n == Len(score_trend)
    IN  Div(Sub(Mul(FromInt(n), sum_xy(score_trend)),
                Mul(FromInt(sum_x(n)), rat_sum(score_trend))),
            FromInt(n * sum_xx(n) - sum_x(n) * sum_x(n)))

trend_slope_of(score_trend) ==
    IF Len(score_trend) >= 2 THEN polyfit_slope(score_trend) ELSE Zero

NoFactor == [score |-> Zero, factors |-> <<>>]

\* Factor 1: current performance
factor_current(avg_score) ==
    IF Less(avg_score, FromInt(60))
    THEN [score |-> Rat(2, 5), factors |-> <<Message("Current average score is below 60%")>>]
    ELSE IF Less(avg_score, FromInt(70))
    THEN [score |-> Rat(1, 5), factors |-> <<Message("Current average score is below 70%")>>]
    ELSE NoFactor

\* Factor 2: predicted performance
factor_predicted(predicted_score) ==
    IF Less(predicted_score, passing_score)
    THEN [score |-> Rat(3, 10),
          factors |-> <<MessageWith("Predicted score ({predicted_score:.1f}%) is below passing threshold",
                                    predicted_score)>>]
    ELSE NoFactor

\* Factor 3: trend
factor_trend(trend_slope) ==
    IF Less(trend_slope, FromInt(-1))
    THEN [score |-> Rat(1, 5), factors |-> <<Message("Performance is declining")>>]
    ELSE IF Less(trend_slope, Zero)
    THEN [score |-> Rat(1, 10), factors |-> <<Message("Performance is slightly declining")>>]
    ELSE NoFactor

\* Factor 4: consistency
factor_consistency(consistency) ==
    IF Less(consistency, Rat(3, 5))
    THEN [score |-> Rat(1, 10), factors |-> <<Message("Inconsistent performance")>>]
    ELSE NoFactor

\* Factor 5: improvement rate
factor_improvement(improvement_rate) ==
    IF Less(improvement_rate, Rat(1, 2))
    THEN [score |-> Rat(1, 10), factors |-> <<Message("Low improvement rate")>>]
    ELSE NoFactor

\* the clamp left out
clamp_risk_none(risk_score) == risk_score

\* risk_score = min(1.0, max(0.0, risk_score))
clamp_risk(risk_score) == PyMin(One, PyMax(Zero, risk_score))

\* the thresholds compared with > instead of >=
risk_level_strict(risk_score) ==
    IF Less(high_risk_threshold, risk_score) THEN "high"
    ELSE IF Less(medium_risk_threshold, risk_score) THEN "medium"
    ELSE "low"

risk_level_of(risk_score) ==
    IF Geq(risk_score, high_risk_threshold) THEN "high"
    ELSE IF Geq(risk_score, medium_risk_threshold) THEN "medium"
    ELSE "low"

\* the tiers chosen with > instead of >=
_generate_recommendations_strict(risk_score, avg_score, predicted_score, risk_factors) ==
    (IF Less(Rat(7, 10), risk_score)
     THEN <<Message("URGENT: Schedule a meeting with your instructor"),
            Message("Increase study time to at least 3-4 hours per day"),
            Message("Focus on fundamental concepts before advanced topics"),
            Message("Consider joining a study group or seeking tutoring")>>
     ELSE IF Less(Rat(2, 5), risk_score)
     THEN <<Message("Increase study time to 2-3 hours per day"),
            Message("Focus on your weakest subjects first"),
            Message("Review past tests and understand mistakes"),
            Message("Set up a consistent study schedule")>>
     ELSE <<Message("Maintain current study habits"),
            Message("Continue focusing on areas for improvement"),
            Message("Take practice tests regularly")>>)
    \o (IF Less(avg_score, FromInt(70))
        THEN <<Message("Prioritize review of basic concepts")>> ELSE <<>>)
    \o (IF Less(predicted_score, FromInt(75))
        THEN <<MessageWith("Need to improve by {75 - predicted_score:.1f}% to pass",
                           Sub(FromInt(75), predicted_score))>>
        ELSE <<>>)

_generate_recommendations(risk_score, avg_score, predicted_score, risk_factors) ==
    (IF Geq(risk_score, Rat(7, 10))
     THEN <<Message("URGENT: Schedule a meeting with your instructor"),
            Message("Increase study time to at least 3-4 hours per day"),
            Message("Focus on fundamental concepts before advanced topics"),
            Message("Consider joining a study group or seeking tutoring")>>
     ELSE IF Geq(risk_score, Rat(2, 5))
     THEN <<Message("Increase study time to 2-3 hours per day"),
            Message("Focus on your weakest subjects first"),
            Message("Review past tests and understand mistakes"),
            Message("Set up a consistent study schedule")>>
     ELSE <<Message("Maintain current study habits"),
            Message("Continue focusing on areas for improvement"),
            Message("Take practice tests regularly")>>)
    \o (IF Less(avg_score, FromInt(70))
        THEN <<Message("Prioritize review of basic concepts")>> ELSE <<>>)
    \o (IF Less(predicted_score, FromInt(75))
        THEN <<MessageWith("Need to improve by {75 - predicted_score:.1f}% to pass",
                           Sub(FromInt(75), predicted_score))>>
        ELSE <<>>)

calculate_risk_score(current_scores, score_trend, consistency, improvement_rate, weeks_until_exam) ==
    LET avg_score == mean_score(current_scores)
        trend_slope == trend_slope_of(score_trend)
        predicted_score == Add(avg_score, Mul(improvement_rate, FromInt(weeks_until_exam)))
        f1 == factor_current(avg_score)
        f2 == factor_predicted(predicted_score)
        f3 == factor_trend(trend_slope)
        f4 == factor_consistency(consistency)
        f5 == factor_improvement(improvement_rate)
        risk_factors == f1.factors \o f2.factors \o f3.factors \o f4.factors \o f5.factors
        risk_score ==
            clamp_risk(Add(Add(Add(Add(Add(Zero, f1.score), f2.score), f3.score),
                               f4.score), f5.score))
    IN  [riskScore |-> risk_score,
         riskLevel |-> risk_level_of(risk_score),
         predictedScore |-> predicted_score,
         currentAverageScore |-> avg_score,
         weeksUntilExam |-> weeks_until_exam,
         riskFactors |-> risk_factors,
         recommendations |->
             _generate_recommendations(risk_score, avg_score, predicted_score, risk_factors)]

\* ---------------------------------------------------------------- SpecRisk
\* list(current_scores.values()): means 0, 50, 57.5, 60, 65, 70, 90
CurrentScores ==
    {<<>>, <<FromInt(50)>>, <<FromInt(90)>>, <<FromInt(65)>>, <<FromInt(70)>>,
     <<FromInt(55), FromInt(65)>>, <<FromInt(50), FromInt(65)>>}

\* slopes 0 (too short), 5, -5, -1, 0, -1/2
ScoreTrends ==
    {<<>>, <<FromInt(80)>>,
     <<FromInt(80), FromInt(85), FromInt(90)>>,
     <<FromInt(90), FromInt(85), FromInt(80)>>,
     <<FromInt(80), FromInt(79)>>,
     <<FromInt(80), FromInt(80)>>,
     <<FromInt(80), FromInt(79), FromInt(79)>>}

Consistencies == {Rat(19, 20), Rat(9, 10), Rat(3, 5), Rat(1, 2)}

ImprovementRates == {FromInt(2), Rat(1, 2), Rat(2, 5), Zero, FromInt(-1)}

WeeksUntilExam == {0, 8}

InitRisk ==
    /\ bkt = BktDefaults
    /\ store = [c \in ConceptIds |-> NewRecord(bkt.p_L0)]
    /\ hist = [c \in ConceptIds |-> [prior |-> bkt.p_L0, outcomes |-> <<>>]]
    /\ clock = 0
    /\ call = NoCall
    /\ sched = IdleSched
    /\ depth = 0
    /\ inflight = NoRequests

\* the detector keeps nothing between calls: a behaviour makes one
CallCalculateRiskScore ==
    \E current_scores \in CurrentScores, score_trend \in ScoreTrends,
       consistency \in Consistencies, improvement_rate \in ImprovementRates,
       weeks_until_exam \in WeeksUntilExam :
        /\ call = NoCall
        /\ call' = [op |-> "calculate_risk_score",
                    current_scores |-> current_scores,
                    score_trend |-> score_trend,
                    consistency |-> consistency,
                    improvement_rate |-> improvement_rate,
                    weeks_until_exam |-> weeks_until_exam,
                    ret |-> calculate_risk_score(current_scores, score_trend, consistency,
                                                 improvement_rate, weeks_until_exam)]
        /\ UNCHANGED <<bkt, store, clock, hist, sched, depth, inflight>>

NextRisk == CallCalculateRiskScore

SpecRisk == InitRisk /\ [][NextRisk]_vars

\* --------------------------------------------------------------- SpecStore
\* callers that run read-update-write cycles against the shared record store
\* without holding it between the read and the write
StorePriors == {Rat(3, 10), Rat(1, 2)}

InitStore ==
    /\ bkt = BktDefaults
    /\ \E prior \in StorePriors :
          /\ store = [c \in ConceptIds |-> NewRecord(prior)]
          /\ hist = [c \in ConceptIds |-> [prior |-> prior, outcomes |-> <<>>, stale |-> 0]]
    /\ clock = 0
    /\ call = NoCall
    /\ sched = IdleSched
    /\ depth = 0
    /\ inflight = NoRequests

\* a caller reads a concept's record and builds its request from it
RetrieveRecord ==
    \E p \in Callers, c \in ConceptIds, is_correct \in BOOLEAN :
        /\ inflight[p] = Idle
        /\ depth < MaxAttempts
        /\ LET rec == store[c]
               data == [hasRequired |-> TRUE,
                        conceptId |-> c,
                        isCorrect |-> is_correct,
                        currentMastery |-> rec.masteryLevel,
                        attempts |-> rec.attempts,
                        correctAttempts |-> rec.correctAttempts,
                        currentInterval |-> rec.interval,
                        easeFactor |-> rec.easeFactor]
           IN  inflight' = [inflight EXCEPT ![p] =
                               [state |-> "read", data |-> data,
                                seen |-> Len(hist[c].outcomes)]]
        /\ depth' = depth + 1
        /\ UNCHANGED <<bkt, store, clock, hist, call, sched>>

\* the caller posts its request and writes the returned record over the
\* stored one; the write is stale when the record was written since the read
PersistUpdate ==
    \E p \in Callers :
        /\ inflight[p] # Idle
        /\ LET data == inflight[p].data
               c == data.conceptId
               resp == update_concept_mastery(data)
           IN  /\ call' = [op |-> "update_concept_mastery", data |-> data, resp |-> resp]
               /\ store' = IF resp.status = 200 THEN [store EXCEPT ![c] = resp.body] ELSE store
               /\ hist' = IF resp.status = 200
                          THEN [hist EXCEPT
                                   ![c].outcomes = Append(@, data.isCorrect),
                                   ![c].stale = @ + (IF inflight[p].seen # Len(hist[c].outcomes)
                                                     THEN 1 ELSE 0)]
                          ELSE hist
        /\ inflight' = [inflight EXCEPT ![p] = Idle]
        /\ UNCHANGED <<bkt, clock, sched, depth>>

NextStore == RetrieveRecord \/ PersistUpdate

SpecStore == InitStore /\ [][NextStore]_vars

\* ================================================================= claims
CorrectCount(outcomes) == Cardinality({i \in 1..Len(outcomes) : outcomes[i]})

LastUpdateOk == call.op = "update_concept_mastery" /\ call.resp.status = 200

\* C1 (Spec): from any prior mastery in [0,1], after any sequence of attempts,
\* each fed the previous result, the mastery of every record is in [0,1].
C1_MasteryInUnit ==
    \A c \in ConceptIds :
        LET m == store[c].masteryLevel
        IN  m[2] > 0 /\ 0 <= m[1] /\ m[1] <= m[2]

\* C1 witness: a record that took a correct and an incorrect attempt.
C1_Witness ==
    \E c \in ConceptIds :
        /\ Len(hist[c].outcomes) >= 2
        /\ \E i, j \in 1..Len(hist[c].outcomes) : hist[c].outcomes[i] /\ ~hist[c].outcomes[j]
        /\ store[c].masteryLevel # hist[c].prior

\* C2 (Spec): for a record created with no attempts, attempts is the number of
\* calls made, correctAttempts the number of those with is_correct, and
\* 0 <= correctAttempts <= attempts.
C2_Counters ==
    \A c \in ConceptIds :
        /\ store[c].attempts = Len(hist[c].outcomes)
        /\ store[c].correctAttempts = CorrectCount(hist[c].outcomes)
        /\ 0 <= store[c].correctAttempts
        /\ store[c].correctAttempts <= store[c].attempts

\* C2 witness: a record after three attempts of which exactly one was correct.
C2_Witness ==
    \E c \in ConceptIds :
        /\ Len(hist[c].outcomes) = 3
        /\ CorrectCount(hist[c].outcomes) = 1
        /\ store[c].attempts = 3
        /\ store[c].correctAttempts = 1

\* the reference rule with pT = 0.3, pG = 0.2, pS = 0.1, in closed form for
\* m = n/d: correct 9n / (7n + 2d); incorrect (12d - 7n) / (40d - 35n)
ReferenceBKT(m, is_correct) ==
    IF is_correct THEN Rat(9 * m[1], 7 * m[1] + 2 * m[2])
    ELSE Rat(12 * m[2] - 7 * m[1], 40 * m[2] - 35 * m[1])

\* C3 (Spec): with the default parameters the new mastery is the posterior
\* alone after a correct answer (no learning increment) and
\* post + pT * (1 - post) after an incorrect one.
C3_ReferenceRule ==
    LastUpdateOk =>
        call.resp.body.masteryLevel = ReferenceBKT(call.data.currentMastery, call.data.isCorrect)

\* C3 witness: a correct answer at mastery 1/2 returned the posterior 9/11.
C3_Witness ==
    /\ LastUpdateOk
    /\ call.data.isCorrect
    /\ call.data.currentMastery = Rat(1, 2)
    /\ call.resp.body.masteryLevel = Rat(9, 11)

\* C4 (Spec): from mastery 0.5 a correct answer yields a strictly higher
\* mastery than an incorrect answer.
C4_CorrectBeatsWrongAtHalf ==
    \A a, b \in ConceptIds :
        ( /\ hist[a].prior = Rat(1, 2)
          /\ hist[b].prior = Rat(1, 2)
          /\ hist[a].outcomes = <<TRUE>>
          /\ hist[b].outcomes = <<FALSE>> )
        => store[b].masteryLevel[1] * store[a].masteryLevel[2]
               < store[a].masteryLevel[1] * store[b].masteryLevel[2]

\* C4 witness: two records at 0.5, one answered correctly, one incorrectly.
C4_Witness ==
    /\ hist["c1"].prior = Rat(1, 2)
    /\ hist["c1"].outcomes = <<TRUE>>
    /\ hist["c2"].outcomes = <<FALSE>>
    /\ store["c1"].masteryLevel = Rat(9, 11)
    /\ store["c2"].masteryLevel = Rat(17, 45)

\* the denominator of the branch taken by the last update_mastery call is zero
DenominatorZero ==
    /\ call.op = "update_mastery"
    /\ IF call.is_correct THEN p_correct(call.current_mastery) = Zero
                          ELSE p_wrong(call.current_mastery) = Zero

\* C5 as stated (SpecBKT): with a zero denominator update_mastery raises no
\* error and returns the input mastery unchanged.
C5_Original ==
    DenominatorZero => ~IsErr(call.ret) /\ call.ret = call.current_mastery

\* C5 amended (SpecBKT): with a zero denominator update_mastery raises no
\* error; a correct answer returns the input mastery m, an incorrect answer
\* returns m + pT * (1 - m), the learning increment applied to the unchanged
\* posterior.
C5_DegenerateDenominator ==
    DenominatorZero =>
        /\ ~IsErr(call.ret)
        /\ call.is_correct => call.ret = call.current_mastery
        /\ ~call.is_correct =>
               call.ret = Add(call.current_mastery,
                              Mul(bkt.p_T, Sub(One, call.current_mastery)))

\* C5 witness: an incorrect answer with a zero denominator that moved mastery.
C5_Witness ==
    /\ DenominatorZero
    /\ ~call.is_correct
    /\ call.ret # call.current_mastery
    /\ ~IsErr(call.ret)

\* C6 (SpecBKT): get_mastery_level maps m = n/d in [0,1] to exactly one label,
\* each band including its lower bound.
C6_MasteryLevelBands ==
    call.op = "get_mastery_level" =>
        LET n == call.mastery_prob[1]
            d == call.mastery_prob[2]
        IN  /\ call.ret \in {"mastered", "proficient", "developing", "beginning", "novice"}
            /\ call.ret = "mastered" <=> 10 * n >= 9 * d
            /\ call.ret = "proficient" <=> (10 * n >= 7 * d /\ 10 * n < 9 * d)
            /\ call.ret = "developing" <=> (10 * n >= 5 * d /\ 10 * n < 7 * d)
            /\ call.ret = "beginning" <=> (10 * n >= 3 * d /\ 10 * n < 5 * d)
            /\ call.ret = "novice" <=> 10 * n < 3 * d

\* C6 witness: 0.9 is classified mastered.
C6_Witness ==
    /\ call.op = "get_mastery_level"
    /\ call.mastery_prob = Rat(9, 10)
    /\ call.ret = "mastered"

LastReview == call.op = "calculate_next_review"

\* max(1.3, e - 0.2) for e = p/q
FailedEase(e) ==
    IF 10 * (5 * e[1] - e[2]) < 13 * 5 * e[2] THEN Rat(13, 10)
    ELSE Rat(5 * e[1] - e[2], 5 * e[2])

\* C7 (SpecSched): a call with mastery < 0.5 returns interval 1 and ease
\* factor max(1.3, input ease - 0.2), whatever the input interval.
C7_FailResets ==
    (LastReview /\ 2 * call.current_mastery[1] < call.current_mastery[2]) =>
        /\ call.ret.quality < 3
        /\ call.ret.interval = 1
        /\ call.ret.easeFactor = FailedEase(call.ease_factor)

\* C7 witness: mastery 0.2 at interval 150 and ease 2.5 gives interval 1, ease 2.3.
C7_Witness ==
    /\ LastReview
    /\ call.current_mastery = Rat(1, 5)
    /\ call.current_interval = 150
    /\ call.ease_factor = Rat(5, 2)
    /\ call.ret.interval = 1
    /\ call.ret.easeFactor = Rat(23, 10)

\* floor(i * e) for an integer i and e = p/q
FloorTimes(i, e) == (i * e[1]) \div e[2]

PassedInterval(current_interval, ease_factor) ==
    IF current_interval = 0 THEN 1
    ELSE IF current_interval = 1 THEN 6
    ELSE FloorTimes(current_interval, ease_factor)

\* C8 (SpecSched): a call with mastery >= 0.5, on a non-negative interval and
\* ease factor, computes before the clamp 1 from interval 0, 6 from interval 1
\* and floor(interval * input ease) otherwise, and returns that value clamped.
C8_PassInterval ==
    ( /\ LastReview
      /\ 2 * call.current_mastery[1] >= call.current_mastery[2]
      /\ call.current_interval >= 0
      /\ call.ease_factor[1] >= 0 ) =>
        LET want == PassedInterval(call.current_interval, call.ease_factor)
        IN  /\ call.ret.quality >= 3
            /\ call.new_interval = want
            /\ call.ret.interval = IF want < 1 THEN 1 ELSE IF want > 365 THEN 365 ELSE want

\* C8 witness: mastery 0.95, interval 1, ease 2.5 gives quality 5 and interval 6.
C8_Witness ==
    /\ LastReview
    /\ call.current_mastery = Rat(19, 20)
    /\ call.current_interval = 1
    /\ call.ease_factor = Rat(5, 2)
    /\ call.ret.quality = 5
    /\ call.ret.interval = 6

\* C9 (SpecSched): under chained calls from any starting interval and ease
\* factor every returned interval is an integer in [1, 365] and every
\* returned ease factor is >= 1.3.
C9_ChainedBounds ==
    LastReview =>
        /\ call.ret.interval \in 1..365
        /\ 10 * call.ret.easeFactor[1] >= 13 * call.ret.easeFactor[2]
        /\ sched.interval = call.ret.interval
        /\ sched.easeFactor = call.ret.easeFactor

\* C9 witness: a later call of a chain whose interval the clamp cut to 365.
C9_Witness ==
    /\ LastReview
    /\ depth >= 2
    /\ call.new_interval > 365
    /\ call.ret.interval = 365

\* C10 (SpecSched): nextReviewDate is the last review date (the current time
\* when absent) plus the returned interval in days, so between 1 and 365 days
\* after that baseline.
C10_NextReviewDate ==
    LastReview =>
        LET base == IF call.last_review_date.kind = "None"
                    THEN call.now.t ELSE call.last_review_date.t
            next == call.ret.nextReviewDate
        IN  /\ next.text = "iso8601"
            /\ next.t = base + call.ret.interval * TicksPerDay
            /\ next.t - base >= 1 * TicksPerDay
            /\ next.t - base <= 365 * TicksPerDay

\* C10 witness: a review dated tick 7, scheduled while the clock shows another time.
C10_Witness ==
    /\ LastReview
    /\ call.last_review_date = datetime(7)
    /\ call.now.t # 7
    /\ call.ret.nextReviewDate.t = 7 + call.ret.interval * TicksPerDay

\* e + 0.10 for quality 5, e for quality 4, e - 0.14 for quality 3, for e = p/q
PassedEaseRaw(e, quality) ==
    IF quality = 5 THEN Rat(10 * e[1] + e[2], 10 * e[2])
    ELSE IF quality = 4 THEN e
    ELSE Rat(50 * e[1] - 7 * e[2], 50 * e[2])

\* C11 (SpecSched): on the pass branch the returned ease factor is
\* max(1.3, e + 0.1 - (5-q)(0.08 + (5-q)0.02)): e + 0.10, e and e - 0.14 for
\* quality 5, 4 and 3, each floored at 1.3.
C11_PassEase ==
    (LastReview /\ call.ret.quality >= 3) =>
        LET raw == PassedEaseRaw(call.ease_factor, call.ret.quality)
        IN  /\ call.ret.quality \in {3, 4, 5}
            /\ call.ret.easeFactor =
                   IF 10 * raw[1] < 13 * raw[2] THEN Rat(13, 10) ELSE raw

\* C11 witness: quality 3 at ease 2.5 returns 2.36.
C11_Witness ==
    /\ LastReview
    /\ call.ret.quality = 3
    /\ call.ease_factor = Rat(5, 2)
    /\ call.ret.easeFactor = Rat(59, 25)

\* C12 (SpecSched): quality is 5 iff m >= 0.9, 4 iff 0.7 <= m < 0.9, 3 iff
\* 0.5 <= m < 0.7, 2 iff 0.3 <= m < 0.5, 1 iff m < 0.3, for m = n/d.
C12_QualityBands ==
    LastReview =>
        LET n == call.current_mastery[1]
            d == call.current_mastery[2]
            q == call.ret.quality
        IN  /\ q \in 1..5
            /\ q = 5 <=> 10 * n >= 9 * d
            /\ q = 4 <=> (10 * n >= 7 * d /\ 10 * n < 9 * d)
            /\ q = 3 <=> (10 * n >= 5 * d /\ 10 * n < 7 * d)
            /\ q = 2 <=> (10 * n >= 3 * d /\ 10 * n < 5 * d)
            /\ q = 1 <=> 10 * n < 3 * d

\* C12 witness: mastery exactly 0.7 has quality 4.
C12_Witness ==
    /\ LastReview
    /\ call.current_mastery = Rat(7, 10)
    /\ call.ret.quality = 4

LastDue == call.op = "get_due_concepts"

\* the positions in the result of the record posted at position i
DuePositions(due, i) == {j \in 1..Len(due) : due[j].conceptId = i}

\* C13 as stated (SpecDue): get_due_concepts returns a record with a
\* parseable nextReviewDate iff nextReviewDate <= now, with daysOverdue the
\* whole number of days elapsed, floor(now - nextReviewDate).
C13_DueIffPast ==
    LastDue =>
        /\ call.ret.raised = ""
        /\ \A i \in 1..Len(call.mastery_records) :
               LET str == call.mastery_records[i].nextReviewDate
                   hits == DuePositions(call.ret.value, i)
               IN  str.text = "iso8601" =>
                       /\ hits # {} <=> str.t <= call.now.t
                       /\ \A j \in hits :
                              call.ret.value[j].daysOverdue
                                  = (call.now.t - str.t) \div TicksPerDay

\* C14 as stated (SpecDue): every record whose nextReviewDate is present but
\* unparseable is in the result with daysOverdue 999, nothing is raised, and
\* the rest of the batch is processed.
C14_MalformedSentinel ==
    LastDue =>
        /\ call.ret.raised = ""
        /\ \A i \in 1..Len(call.mastery_records) :
               call.mastery_records[i].nextReviewDate.text = "malformed" =>
                   /\ DuePositions(call.ret.value, i) # {}
                   /\ \A j \in DuePositions(call.ret.value, i) :
                          call.ret.value[j].daysOverdue = 999

\* C15 as stated (SpecDue): a record without a nextReviewDate is treated as
\* due and appears in the result; a missing or malformed currentDate posted
\* to the endpoint never gives an error response.
C15_MissingTreatedDue ==
    /\ LastDue =>
           \A i \in 1..Len(call.mastery_records) :
               call.mastery_records[i].nextReviewDate.text = "None" =>
                   DuePositions(call.ret.value, i) # {}
    /\ ( /\ call.op = "api_get_due_concepts"
         /\ call.data.hasRecords
         /\ call.data.currentDate.text \in {"None", "malformed"} )
       => call.resp.status = 200

\* most overdue first, equally overdue records in the order they were posted
OrderedDue(due) ==
    \A j, k \in 1..Len(due) :
        j < k =>
            /\ due[j].daysOverdue >= due[k].daysOverdue
            /\ due[j].daysOverdue = due[k].daysOverdue => due[j].conceptId < due[k].conceptId

\* C16 (SpecDue): the returned sequence is ordered by daysOverdue
\* non-increasing, and records equally overdue keep their input order.
C16_DueOrder ==
    /\ (LastDue /\ call.ret.raised = "") => OrderedDue(call.ret.value)
    /\ (call.op = "api_get_due_concepts" /\ call.resp.status = 200)
           => OrderedDue(call.resp.dueConcepts)

\* C16 witness: two records with different dates, both 3 days overdue,
\* returned in the order posted.
C16_Witness ==
    /\ LastDue
    /\ call.ret.raised = ""
    /\ Len(call.ret.value) = 2
    /\ call.ret.value[1].daysOverdue = call.ret.value[2].daysOverdue
    /\ call.ret.value[1].daysOverdue > 0
    /\ call.ret.value[1].nextReviewDate # call.ret.value[2].nextReviewDate
    /\ call.ret.value[1].conceptId = 1
    /\ call.ret.value[2].conceptId = 2

\* the record's mastery in tenths (every ledger mastery is a multiple of 0.1;
\* an absent masteryLevel reads as 0)
Tenths(record) ==
    IF record.hasMasteryLevel THEN (10 * record.masteryLevel[1]) \div record.masteryLevel[2]
    ELSE 0

ThresholdTenths(threshold) == (10 * threshold[1]) \div threshold[2]

\* C17 (SpecLedger): get_weak_concepts returns exactly the input records whose
\* mastery is strictly below the threshold, each once, ordered by mastery
\* ascending; an empty input gives an empty output.
C17_WeakConcepts ==
    call.op = "get_weak_concepts" =>
        LET recs == call.mastery_records
            weak == {i \in 1..Len(recs) : Tenths(recs[i]) < ThresholdTenths(call.threshold)}
        IN  /\ Len(call.ret) = Cardinality(weak)
            /\ \A i \in weak : \E j \in 1..Len(call.ret) : call.ret[j] = recs[i]
            /\ \A j \in 1..Len(call.ret) : call.ret[j].conceptId \in weak
            /\ \A j, k \in 1..Len(call.ret) :
                   j < k => Tenths(call.ret[j]) <= Tenths(call.ret[k])
            /\ recs = <<>> => call.ret = <<>>

\* C17 witness: masteries 0.9, 0.2, 0.5 with threshold 0.7 give 0.2, 0.5.
C17_Witness ==
    /\ call.op = "get_weak_concepts"
    /\ call.threshold = Rat(7, 10)
    /\ Len(call.mastery_records) = 3
    /\ \A i \in 1..3 : call.mastery_records[i].hasMasteryLevel
    /\ call.mastery_records[1].masteryLevel = Rat(9, 10)
    /\ call.mastery_records[2].masteryLevel = Rat(1, 5)
    /\ call.mastery_records[3].masteryLevel = Rat(1, 2)
    /\ Len(call.ret) = 2
    /\ call.ret[1].masteryLevel = Rat(1, 5)
    /\ call.ret[2].masteryLevel = Rat(1, 2)

RECURSIVE SumTenths(_)
SumTenths(recs) == IF recs = <<>> THEN 0 ELSE Tenths(Head(recs)) + SumTenths(Tail(recs))

InBand(recs, lo, hi) == Cardinality({i \in 1..Len(recs) : lo <= Tenths(recs[i]) /\ Tenths(recs[i]) < hi})

\* C18 (SpecLedger): get_mastery_summary returns the number of records, per
\* label the number of records of that band (the five counts summing to the
\* total) and the arithmetic mean of the masteries; all of them 0 for an
\* empty input.
C18_MasterySummary ==
    call.op = "get_mastery_summary" =>
        LET recs == call.mastery_records
            r == call.ret
        IN  /\ r.total = Len(recs)
            /\ r.mastered = InBand(recs, 9, 11)
            /\ r.proficient = InBand(recs, 7, 9)
            /\ r.developing = InBand(recs, 5, 7)
            /\ r.beginning = InBand(recs, 3, 5)
            /\ r.novice = InBand(recs, 0, 3)
            /\ r.mastered + r.proficient + r.developing + r.beginning + r.novice = r.total
            /\ r.averageMastery =
                   IF recs = <<>> THEN Zero ELSE Rat(SumTenths(recs), 10 * Len(recs))

\* C18 witness: masteries 0.9, 0.2, 0.5 give total 3, one mastered, one
\* developing, one novice, and the mean 8/15.
C18_Witness ==
    /\ call.op = "get_mastery_summary"
    /\ Len(call.mastery_records) = 3
    /\ call.ret.total = 3
    /\ call.ret.mastered = 1
    /\ call.ret.developing = 1
    /\ call.ret.novice = 1
    /\ call.ret.averageMastery = Rat(8, 15)

RECURSIVE IntSum(_)
\* the scores of SpecRisk are whole numbers
IntSum(values) == IF values = <<>> THEN 0 ELSE Head(values)[1] + IntSum(Tail(values))

RECURSIVE WeightedSum(_)
\* Sum over i of (i - 1) * values[i]
WeightedSum(values) ==
    LET n == Len(values)
    IN  IF n = 0 THEN 0
        ELSE (n - 1) * values[n][1] + WeightedSum(SubSeq(values, 1, n - 1))

\* sign-carrying numerator and positive denominator of the least-squares
\* slope over x = 0 .. n-1
SlopeNum(trend) ==
    LET n == Len(trend) IN n * WeightedSum(trend) - ((n * (n - 1)) \div 2) * IntSum(trend)

SlopeDen(trend) ==
    LET n == Len(trend) IN (n * n * (n * n - 1)) \div 12

\* the five weights in hundredths, from the returned average and prediction
RiskHundredths ==
    LET r == call.ret
        short == Len(call.score_trend) < 2
        num == SlopeNum(call.score_trend)
        den == SlopeDen(call.score_trend)
    IN  (IF Less(r.currentAverageScore, FromInt(60)) THEN 40
         ELSE IF Less(r.currentAverageScore, FromInt(70)) THEN 20 ELSE 0)
        + (IF Less(r.predictedScore, FromInt(75)) THEN 30 ELSE 0)
        + (IF short THEN 0 ELSE IF num < -den THEN 20 ELSE IF num < 0 THEN 10 ELSE 0)
        + (IF Less(call.consistency, Rat(6, 10)) THEN 10 ELSE 0)
        + (IF Less(call.improvement_rate, Rat(5, 10)) THEN 10 ELSE 0)

\* the messages of the factors that fired, in the order of the factors
RiskTexts ==
    LET r == call.ret
        short == Len(call.score_trend) < 2
        num == SlopeNum(call.score_trend)
        den == SlopeDen(call.score_trend)
    IN  (IF Less(r.currentAverageScore, FromInt(60)) THEN <<"Current average score is below 60%">>
         ELSE IF Less(r.currentAverageScore, FromInt(70)) THEN <<"Current average score is below 70%">>
         ELSE <<>>)
        \o (IF Less(r.predictedScore, FromInt(75))
            THEN <<"Predicted score ({predicted_score:.1f}%) is below passing threshold">>
            ELSE <<>>)
        \o (IF short THEN <<>>
            ELSE IF num < -den THEN <<"Performance is declining">>
            ELSE IF num < 0 THEN <<"Performance is slightly declining">>
            ELSE <<>>)
        \o (IF Less(call.consistency, Rat(6, 10)) THEN <<"Inconsistent performance">> ELSE <<>>)
        \o (IF Less(call.improvement_rate, Rat(5, 10)) THEN <<"Low improvement rate">> ELSE <<>>)

\* C19 (SpecRisk): calculate_risk_score returns the mean of the current
\* scores (0 when there are none), predictedScore = average + rate * weeks,
\* riskScore = min(1, sum of the weights of the factors that fired) with a
\* slope of 0 for a trend of fewer than 2 points, and in riskFactors exactly
\* one message per factor that fired.
C19_RiskFormula ==
    call.op = "calculate_risk_score" =>
        LET r == call.ret
            n == Len(call.current_scores)
        IN  /\ r.currentAverageScore =
                   IF n = 0 THEN Zero ELSE Rat(IntSum(call.current_scores), n)
            /\ r.predictedScore =
                   Add(r.currentAverageScore,
                       Rat(call.improvement_rate[1] * call.weeks_until_exam,
                           call.improvement_rate[2]))
            /\ r.riskScore = Rat(IntMin(100, RiskHundredths), 100)
            /\ Len(r.riskFactors) = Len(RiskTexts)
            /\ \A i \in 1..Len(RiskTexts) : r.riskFactors[i].text = RiskTexts[i]
            /\ RiskHundredths = 0 => r.riskScore = Zero /\ r.riskFactors = <<>>

\* C19 witness: ({A: 90}, [80, 85, 90], 0.95, 2.0, 8) fires no factor:
\* riskScore 0 and no riskFactors.
C19_Witness ==
    /\ call.op = "calculate_risk_score"
    /\ call.current_scores = <<FromInt(90)>>
    /\ call.score_trend = <<FromInt(80), FromInt(85), FromInt(90)>>
    /\ call.consistency = Rat(19, 20)
    /\ call.improvement_rate = FromInt(2)
    /\ call.weeks_until_exam = 8
    /\ call.ret.riskScore = Zero
    /\ call.ret.riskFactors = <<>>

\* C20 (SpecRisk): riskScore lies in [0, 1]; riskLevel is "high" iff
\* riskScore >= 0.7, "medium" iff 0.4 <= riskScore < 0.7, "low" iff
\* riskScore < 0.4.
C20_RiskLevel ==
    call.op = "calculate_risk_score" =>
        LET r == call.ret
            hundredths == (100 * r.riskScore[1]) \div r.riskScore[2]
        IN  /\ r.riskScore[2] > 0
            /\ 0 <= r.riskScore[1] /\ r.riskScore[1] <= r.riskScore[2]
            /\ (100 * r.riskScore[1]) % r.riskScore[2] = 0
            /\ r.riskLevel = "high" <=> hundredths >= 70
            /\ r.riskLevel = "medium" <=> (40 <= hundredths /\ hundredths < 70)
            /\ r.riskLevel = "low" <=> hundredths < 40

\* C20 witness: ({A: 50}, [], 0.9, 2.0, 8) fires the average (+0.4) and the
\* prediction (+0.3) only: riskScore exactly 0.7, riskLevel "high".
C20_Witness ==
    /\ call.op = "calculate_risk_score"
    /\ call.current_scores = <<FromInt(50)>>
    /\ call.score_trend = <<>>
    /\ call.consistency = Rat(9, 10)
    /\ call.improvement_rate = FromInt(2)
    /\ call.weeks_until_exam = 8
    /\ Len(call.ret.riskFactors) = 2
    /\ call.ret.riskScore = Rat(7, 10)
    /\ call.ret.riskLevel = "high"


\* the texts of a list of messages
Texts(messages) == [i \in 1..Len(messages) |-> messages[i].text]

\* riskScore in hundredths (every reachable riskScore is a multiple of 0.1)
ScoreHundredths(risk_score) == (100 * risk_score[1]) \div risk_score[2]

\* C21 (SpecRisk): recommendations is one tier block chosen by riskScore (the
\* 4 urgent messages iff riskScore >= 0.7, the 4 medium messages iff
\* 0.4 <= riskScore < 0.7, the 3 maintain messages otherwise), then
\* "Prioritize review of basic concepts" iff the average is below 70, then the
\* "Need to improve by ..." message iff the predicted score is below 75, and
\* nothing else.
C21_Recommendations ==
    call.op = "calculate_risk_score" =>
        LET r == call.ret
            h == ScoreHundredths(r.riskScore)
            tier == IF h >= 70
                    THEN <<"URGENT: Schedule a meeting with your instructor",
                           "Increase study time to at least 3-4 hours per day",
                           "Focus on fundamental concepts before advanced topics",
                           "Consider joining a study group or seeking tutoring">>
                    ELSE IF h >= 40
                    THEN <<"Increase study time to 2-3 hours per day",
                           "Focus on your weakest subjects first",
                           "Review past tests and understand mistakes",
                           "Set up a consistent study schedule">>
                    ELSE <<"Maintain current study habits",
                           "Continue focusing on areas for improvement",
                           "Take practice tests regularly">>
            basics == IF Less(r.currentAverageScore, FromInt(70))
                      THEN <<"Prioritize review of basic concepts">> ELSE <<>>
            gap == IF Less(r.predictedScore, FromInt(75))
                   THEN <<"Need to improve by {75 - predicted_score:.1f}% to pass">> ELSE <<>>
        IN  Texts(r.recommendations) = tier \o basics \o gap

\* C21 witness: average 50 and predicted 66 at riskScore 0.7: the urgent
\* block, then the basics message, then the gap message for 9.0 points.
C21_Witness ==
    /\ call.op = "calculate_risk_score"
    /\ call.ret.riskScore = Rat(7, 10)
    /\ call.ret.currentAverageScore = FromInt(50)
    /\ call.ret.predictedScore = FromInt(66)
    /\ Len(call.ret.recommendations) = 6
    /\ call.ret.recommendations[1].text = "URGENT: Schedule a meeting with your instructor"
    /\ call.ret.recommendations[5].text = "Prioritize review of basic concepts"
    /\ call.ret.recommendations[6].args = <<90>>


\* C22 (SpecDue): get_due_concepts is total: for records whose nextReviewDate
\* is missing, malformed, or well-formed ISO-8601 with or without a timezone
\* designator, it returns a list and never raises.
C22_Total ==
    call.op = "get_due_concepts" => call.ret.raised = ""


\* the quality band of a mastery m = n/d
BandQuality(m) ==
    IF 10 * m[1] >= 9 * m[2] THEN 5
    ELSE IF 10 * m[1] >= 7 * m[2] THEN 4
    ELSE IF 10 * m[1] >= 5 * m[2] THEN 3
    ELSE IF 10 * m[1] >= 3 * m[2] THEN 2
    ELSE 1

\* the interval and ease factor the scheduler owes for a mastery, an interval
\* and an ease factor
OwedInterval(m, current_interval, ease_factor) ==
    IF BandQuality(m) < 3 THEN 1
    ELSE LET want == PassedInterval(current_interval, ease_factor)
         IN  IF want < 1 THEN 1 ELSE IF want > 365 THEN 365 ELSE want

OwedEase(m, ease_factor) ==
    IF BandQuality(m) < 3 THEN FailedEase(ease_factor)
    ELSE LET raw == PassedEaseRaw(ease_factor, BandQuality(m))
         IN  IF 10 * raw[1] < 13 * raw[2] THEN Rat(13, 10) ELSE raw

\* C23 (Spec): in one update the estimator runs first and the scheduler is fed
\* the new mastery and the update's timestamp: the returned interval and ease
\* factor are the scheduler's for the new mastery and the request's
\* currentInterval and easeFactor, and nextReviewDate is lastReviewed plus
\* that interval in days.
C23_PipelineOrder ==
    LastUpdateOk =>
        LET d == call.data
            b == call.resp.body
            new == ReferenceBKT(d.currentMastery, d.isCorrect)
        IN  /\ b.masteryLevel = new
            /\ b.interval = OwedInterval(new, d.currentInterval, d.easeFactor)
            /\ b.easeFactor = OwedEase(new, d.easeFactor)
            /\ b.lastReviewed.text = "iso8601"
            /\ b.lastReviewed.t <= clock
            /\ b.nextReviewDate.text = "iso8601"
            /\ b.nextReviewDate.t = b.lastReviewed.t + b.interval * TicksPerDay

\* C23 witness: an incorrect answer at mastery 0.5 (quality 3, a pass, before
\* the attempt) is scheduled on the new mastery 17/45 (quality 2, a fail):
\* interval 1, ease 2.3, next review one day after the update.
C23_Witness ==
    /\ LastUpdateOk
    /\ call.data.currentMastery = Rat(1, 2)
    /\ ~call.data.isCorrect
    /\ call.data.easeFactor = Rat(5, 2)
    /\ call.resp.body.masteryLevel = Rat(17, 45)
    /\ call.resp.body.interval = 1
    /\ call.resp.body.easeFactor = Rat(23, 10)
    /\ call.resp.body.nextReviewDate.t = call.resp.body.lastReviewed.t + TicksPerDay


\* C24 (Spec): update_from_question_attempt is a pure function of its
\* explicit arguments: a call made with the arguments of the call before it
\* returns the same mastery, counters, label and lastReviewed, whatever the
\* wall clock shows.
C24_Deterministic ==
    [][ ( /\ LastUpdateOk
          /\ LastUpdateOk'
          /\ call'.data.currentMastery = call.data.currentMastery
          /\ call'.data.attempts = call.data.attempts
          /\ call'.data.correctAttempts = call.data.correctAttempts
          /\ call'.data.isCorrect = call.data.isCorrect )
        => ( /\ call'.resp.body.masteryLevel = call.resp.body.masteryLevel
             /\ call'.resp.body.attempts = call.resp.body.attempts
             /\ call'.resp.body.correctAttempts = call.resp.body.correctAttempts
             /\ call'.resp.body.masteryLevelLabel = call.resp.body.masteryLevelLabel
             /\ call'.resp.body.lastReviewed = call.resp.body.lastReviewed ) ]_vars


\* the fields of a record that an update computes from the record alone
CoreFields(rec) ==
    [masteryLevel |-> rec.masteryLevel,
     attempts |-> rec.attempts,
     correctAttempts |-> rec.correctAttempts,
     interval |-> rec.interval,
     easeFactor |-> rec.easeFactor]

\* one update applied to those fields, by the reference rules
AloneStep(rec, is_correct) ==
    LET new == ReferenceBKT(rec.masteryLevel, is_correct)
    IN  [masteryLevel |-> new,
         attempts |-> rec.attempts + 1,
         correctAttempts |-> rec.correctAttempts + (IF is_correct THEN 1 ELSE 0),
         interval |-> OwedInterval(new, rec.interval, rec.easeFactor),
         easeFactor |-> OwedEase(new, rec.easeFactor)]

RECURSIVE RunAlone(_, _)
\* a concept's updates run alone, one after the other
RunAlone(rec, outcomes) ==
    IF outcomes = <<>> THEN rec
    ELSE RunAlone(AloneStep(rec, Head(outcomes)), Tail(outcomes))

\* C25 (SpecStore): a record none of whose updates was written over a read
\* that another update of the same concept had made stale (its updates were
\* serialized, whatever ran on other concepts in between) is in the state
\* that running its updates alone gives, and counts every update:
\* attempts = number of updates.
C25_Serialized ==
    \A c \in ConceptIds :
        hist[c].stale = 0 =>
            /\ CoreFields(store[c]) = RunAlone(CoreFields(NewRecord(hist[c].prior)),
                                               hist[c].outcomes)
            /\ store[c].attempts = Len(hist[c].outcomes)

\* C25 witness: two updates of c1 that both read the fresh record lost one
\* (two written, attempts 1), while c2, updated by one of the same callers,
\* is as running its update alone leaves it.
C25_Witness ==
    /\ hist["c1"].stale = 1
    /\ Len(hist["c1"].outcomes) = 2
    /\ store["c1"].attempts = 1
    /\ hist["c2"].stale = 0
    /\ Len(hist["c2"].outcomes) = 1
    /\ store["c2"].attempts = 1
    /\ CoreFields(store["c2"]) = RunAlone(CoreFields(NewRecord(hist["c2"].prior)),
                                          hist["c2"].outcomes)


\* C26 (Spec): with the default parameters a correct answer never lowers
\* mastery, m' >= m with equality exactly at m = 0 and m = 1; a record that
\* starts at mastery 0 and takes only correct answers stays at 0.
C26_CorrectNeverLowers ==
    /\ (LastUpdateOk /\ call.data.isCorrect) =>
           LET m == call.data.currentMastery
               new == call.resp.body.masteryLevel
           IN  /\ new[1] * m[2] >= m[1] * new[2]
               /\ (new[1] * m[2] = m[1] * new[2]) <=> (m[1] = 0 \/ m[1] = m[2])
    /\ \A c \in ConceptIds :
           ( /\ hist[c].prior = Zero
             /\ \A i \in 1..Len(hist[c].outcomes) : hist[c].outcomes[i] )
           => store[c].masteryLevel = Zero

\* C26 witness: three correct answers in a row on a record that started at 0.
C26_Witness ==
    \E c \in ConceptIds :
        /\ hist[c].prior = Zero
        /\ hist[c].outcomes = <<TRUE, TRUE, TRUE>>
        /\ store[c].attempts = 3
        /\ store[c].correctAttempts = 3
        /\ store[c].masteryLevel = Zero


\* two calls of update_mastery in a row on the default parameters, the first
\* with a correct and the second with an incorrect answer, at the same mastery
CorrectThenWrong ==
    /\ bkt = BktDefaults
    /\ call.op = "update_mastery"
    /\ call'.op = "update_mastery"
    /\ call.is_correct
    /\ ~call'.is_correct
    /\ call'.current_mastery = call.current_mastery

\* C27 as stated (SpecBKT): for every m in [0,1] the correct answer yields a
\* strictly higher mastery than the incorrect answer from the same m.
C27_Original ==
    [][CorrectThenWrong => call'.ret[1] * call.ret[2] < call.ret[1] * call'.ret[2]]_vars

\* C27 amended (SpecBKT): the correct answer yields the strictly higher
\* mastery exactly for 12/133 < m < 1; at m = 12/133 and at m = 1 both yield
\* the same mastery, and for m < 12/133 the incorrect answer yields the
\* higher one (0.3 against 0 at m = 0).
C27_CorrectBeatsWrong ==
    [][CorrectThenWrong =>
          LET m == call.current_mastery
              right == call.ret
              wrong == call'.ret
          IN  /\ (133 * m[1] > 12 * m[2] /\ m[1] < m[2])
                     => wrong[1] * right[2] < right[1] * wrong[2]
              /\ (133 * m[1] = 12 * m[2] \/ m[1] = m[2]) => wrong = right
              /\ 133 * m[1] < 12 * m[2]
                     => right[1] * wrong[2] < wrong[1] * right[2]
              /\ m = Zero => right = Zero /\ wrong = Rat(3, 10)]_vars

\* C27 witness: the incorrect answer at the mastery 12/133, where it returns
\* 54/175 as the correct answer does.
C27_Witness ==
    /\ bkt = BktDefaults
    /\ call.op = "update_mastery"
    /\ ~call.is_correct
    /\ call.current_mastery = Rat(12, 133)
    /\ call.ret = Rat(54, 175)


\* C28 (Spec): with the default parameters the mastery returned after an
\* incorrect answer is at least pT = 0.3, so its label is not "novice" and
\* the quality the scheduler computes from it is at least 2.
C28_WrongFloor ==
    (LastUpdateOk /\ ~call.data.isCorrect) =>
        LET new == call.resp.body.masteryLevel
        IN  /\ 10 * new[1] >= 3 * new[2]
            /\ call.resp.body.masteryLevelLabel # "novice"
            /\ quality_of(new) >= 2

\* C28 witness: an incorrect answer at mastery 0 returns exactly 0.3, labelled
\* "beginning", and is scheduled with quality 2 (interval 1, ease 2.3).
C28_Witness ==
    /\ LastUpdateOk
    /\ ~call.data.isCorrect
    /\ call.data.currentMastery = Zero
    /\ call.resp.body.masteryLevel = Rat(3, 10)
    /\ call.resp.body.masteryLevelLabel = "beginning"
    /\ call.resp.body.interval = 1
    /\ call.resp.body.easeFactor = Rat(23, 10)


\* an incorrect attempt posted with currentInterval in [1, 365] and
\* easeFactor >= 1.3
WrongAttemptInDomain ==
    /\ LastUpdateOk
    /\ ~call.data.isCorrect
    /\ call.data.currentInterval \in 1..365
    /\ 10 * call.data.easeFactor[1] >= 13 * call.data.easeFactor[2]

\* C29 as stated (Spec): the interval returned after an incorrect attempt is
\* at most the request's currentInterval.
C29_Original ==
    WrongAttemptInDomain => call.resp.body.interval <= call.data.currentInterval

\* C29 amended (Spec): after an incorrect attempt whose updated mastery is
\* below 0.5 (every prior mastery below 16/21) the interval returned is 1, so
\* at most currentInterval; from a prior mastery of 16/21 or more the updated
\* mastery is still at least 0.5, the review is scheduled as a pass and the
\* interval is not shortened (from 1 it becomes 6).
C29_WrongNeverLengthensBelowPass ==
    WrongAttemptInDomain =>
        LET m == call.data.currentMastery
            new == call.resp.body.masteryLevel
            i == call.data.currentInterval
        IN  /\ (21 * m[1] < 16 * m[2]) <=> (2 * new[1] < new[2])
            /\ 2 * new[1] < new[2] =>
                   call.resp.body.interval = 1 /\ call.resp.body.interval <= i
            /\ 2 * new[1] >= new[2] =>
                   /\ call.resp.body.interval >= i
                   /\ i = 1 => call.resp.body.interval = 6

\* C29 witness: an incorrect answer at mastery 0.75 and interval 6 drops the
\* mastery to 27/55 < 0.5 and the interval to 1.
C29_Witness ==
    /\ WrongAttemptInDomain
    /\ call.data.currentMastery = Rat(3, 4)
    /\ call.data.currentInterval = 6
    /\ call.resp.body.masteryLevel = Rat(27, 55)
    /\ call.resp.body.interval = 1


====
